---- MODULE Spec2Model ----
(***************************************************************************)
(* A model of the key store (src/src/keystore.cpp, CBasicKeyStore) and of  *)
(* the Sapling consolidation operation                                     *)
(* (src/src/wallet/asyncrpcoperation_saplingconsolidation.cpp).            *)
(*                                                                         *)
(* The key store is one record variable, ks, whose fields are the members  *)
(* of CBasicKeyStore.  Every public method takes its partition's lock on   *)
(* entry (LOCK(cs_KeyStore) or LOCK(cs_SpendingKeyStore), both recursive)  *)
(* and holds it until it returns, so a method is one atomic action here.   *)
(* A method is an operator from the store (and its arguments) to the new   *)
(* store and the returned bool; the action that calls it records the call  *)
(* in lastOp.  The locking itself is modelled apart (cs, thread): there a  *)
(* call is a program of LOCK, statement and unlock steps that two threads  *)
(* take one at a time.                                                     *)
(***************************************************************************)
EXTENDS Integers, Sequences, FiniteSets, TLC

VARIABLES
    cs,         \* the key store's critical sections: the thread that owns each, how often
    thread,     \* the threads that call the key store: the call each is in, the steps left
    ks,         \* the CBasicKeyStore object (the wallet's key store)
    lastOp,     \* the last mutating key store call: its name, arguments, result
    wallet,     \* pwalletMain's notes and consolidation fields, the committed transactions
    chain,      \* chainActive's tip height and the next network upgrade's height
    args,       \* fConsolidationTxFee, fConsolidationMapUsed, -consolidatesaplingaddress
    op,         \* the AsyncRPCOperation_saplingconsolidation object
    pc,         \* where the worker thread is in main() and main_impl()
    loc,        \* the locals of main() and main_impl()
    hist        \* history: what the run did to each address, what was thrown, when cancel() was called

(***************************************************************************)
(* Bounds of the model.                                                    *)
(***************************************************************************)
NumSk == 2          \* Sapling extended spending keys 1..NumSk
NumSeeds == 2       \* non-null HD seeds 1..NumSeeds
NumScripts == 3     \* redeem scripts 1..NumScripts
NumKeys == 1        \* transparent private keys 1..NumKeys
NumSprout == 1      \* Sprout spending keys (and their viewing keys) 1..NumSprout
NumPaths == 1       \* diversifier paths 1..NumPaths
MaxNotes == 12      \* the most notes an address holds
MaxRand == 2        \* rand() returns 0..MaxRand, or RandHigh
MaxFee == 2         \* the configured fee is 0 or MaxFee
ChainTip == 100     \* the height of the chain's tip
Interval == 5       \* pwalletMain->initializeConsolidationInterval

(***************************************************************************)
(* Values.  A key, seed, address or script is an integer naming it.        *)
(***************************************************************************)
NullSeed == 0
HDSeeds == 0..NumSeeds                  \* seed 0 is the null (empty) seed
SaplingSpendingKeys == 1..NumSk         \* SaplingExtendedSpendingKey
\* SaplingExtendedFullViewingKey: the key derived from spending key k is k;
\* 0 is a full viewing key whose spending key is unknown and that has the
\* same (ak, nk), hence the same incoming viewing key, as key 1, but another
\* diversifier key, hence another default address.
SaplingFullViewingKeys == 0..NumSk
SaplingIncomingViewingKeys == 1..NumSk
SaplingPaymentAddresses == 0..NumSk
NoIvk == 0          \* a default-constructed SaplingIncomingViewingKey
NoFvk == -1         \* a default-constructed SaplingExtendedFullViewingKey
NoSk == 0           \* a default-constructed SaplingExtendedSpendingKey

\* sk.ToXFVK()
ToXFVK(sk) == sk
\* extfvk.fvk.in_viewing_key()
in_viewing_key(extfvk) == IF extfvk = 0 THEN 1 ELSE extfvk
\* extfvk.fvk.ovk
ovk(extfvk) == extfvk
\* extfvk.DefaultAddress()
DefaultAddress(extfvk) == extfvk

MAX_SCRIPT_ELEMENT_SIZE == 520
\* CScript: script k is MAX_SCRIPT_ELEMENT_SIZE - 2 + k bytes long, so the
\* scripts are one byte under, at, and one or more bytes over the maximum.
Scripts == { [id |-> k, size |-> MAX_SCRIPT_ELEMENT_SIZE - 2 + k] : k \in 1..NumScripts }
\* CScriptID(redeemScript): the script's hash
CScriptID(script) == script.id
NoScript == [id |-> 0, size |-> 0]      \* a default-constructed CScript
Keys == 1..NumKeys                      \* CKey
PubKeys == 1..NumKeys                   \* CPubKey
\* key.GetPubKey()
GetPubKey(key) == key
\* pubkey.GetID()
GetID(pubkey) == pubkey

(***************************************************************************)
(* std::map and std::set.                                                  *)
(***************************************************************************)
EmptyMap == [k \in {} |-> 0]
\* m[k] = v
MapAssign(m, k, v) == [x \in DOMAIN m \cup {k} |-> IF x = k THEN v ELSE m[x]]
\* m.insert(std::make_pair(k, v)): keeps an existing entry
MapInsert(m, k, v) == IF k \in DOMAIN m THEN m ELSE MapAssign(m, k, v)
\* m.erase(k)
MapErase(m, k) == [x \in DOMAIN m \ {k} |-> m[x]]

(***************************************************************************)
(* The store after construction: every container empty, the seed null.     *)
(***************************************************************************)
EmptyKeyStore ==
    [ hdSeed |-> NullSeed,
      mapKeys |-> EmptyMap,
      mapScripts |-> EmptyMap,
      setWatchOnly |-> {},
      setSaplingWatchOnly |-> {},
      mapSproutSpendingKeys |-> EmptyMap,
      mapSproutViewingKeys |-> EmptyMap,
      mapNoteDecryptors |-> EmptyMap,
      mapSaplingSpendingKeys |-> EmptyMap,
      mapSaplingFullViewingKeys |-> EmptyMap,
      setSaplingOutgoingViewingKeys |-> {},
      mapSaplingIncomingViewingKeys |-> EmptyMap,
      setSaplingIncomingViewingKeys |-> {},
      mapSaplingPaymentAddresses |-> EmptyMap,
      mapLastDiversifierPath |-> EmptyMap ]

Result(s, r) == [ks |-> s, ret |-> r]
Out(r, o) == [ret |-> r, out |-> o]

(***************************************************************************)
(* The seed (cs_SpendingKeyStore).                                         *)
(***************************************************************************)
IsNull(seed) == seed = NullSeed

\* the stored seed is not checked
SetHDSeed_Overwrite(s, seed) == Result([s EXCEPT !.hdSeed = seed], TRUE)

SetHDSeed(s, seed) ==
    IF ~IsNull(s.hdSeed)
    THEN Result(s, FALSE)
    ELSE Result([s EXCEPT !.hdSeed = seed], TRUE)

HaveHDSeed(s) == ~IsNull(s.hdSeed)

GetHDSeed(s, seedOut) ==
    IF IsNull(s.hdSeed) THEN Out(FALSE, seedOut) ELSE Out(TRUE, s.hdSeed)

(***************************************************************************)
(* Transparent keys, scripts and watch-only sets (cs_KeyStore).            *)
(***************************************************************************)
AddKeyPubKey(s, key, pubkey) ==
    Result([s EXCEPT !.mapKeys = MapAssign(@, GetID(pubkey), key)], TRUE)

AddKey(s, key) == AddKeyPubKey(s, key, GetPubKey(key))

\* a script of exactly the maximum size is refused
AddCScript_OffByOne(s, redeemScript) ==
    IF redeemScript.size >= MAX_SCRIPT_ELEMENT_SIZE
    THEN Result(s, FALSE)
    ELSE Result([s EXCEPT !.mapScripts = MapAssign(@, CScriptID(redeemScript), redeemScript)], TRUE)

AddCScript(s, redeemScript) ==
    IF redeemScript.size > MAX_SCRIPT_ELEMENT_SIZE
    THEN Result(s, FALSE)
    ELSE Result([s EXCEPT !.mapScripts = MapAssign(@, CScriptID(redeemScript), redeemScript)], TRUE)

HaveCScript(s, hash) == hash \in DOMAIN s.mapScripts

GetCScript(s, hash, redeemScriptOut) ==
    IF hash \in DOMAIN s.mapScripts
    THEN Out(TRUE, s.mapScripts[hash])
    ELSE Out(FALSE, redeemScriptOut)

AddWatchOnly(s, dest) == Result([s EXCEPT !.setWatchOnly = @ \cup {dest}], TRUE)

AddSaplingWatchOnly(s, extfvk) ==
    Result([s EXCEPT !.setSaplingWatchOnly = @ \cup {extfvk}], TRUE)

RemoveWatchOnly(s, dest) == Result([s EXCEPT !.setWatchOnly = @ \ {dest}], TRUE)

RemoveSaplingWatchOnly(s, extfvk) ==
    Result([s EXCEPT !.setSaplingWatchOnly = @ \ {extfvk}], TRUE)

HaveWatchOnlyScript(s, dest) == dest \in s.setWatchOnly

HaveSaplingWatchOnly(s, extfvk) == extfvk \in s.setSaplingWatchOnly

HaveWatchOnly(s) ==
    IF s.setWatchOnly # {} THEN TRUE
    ELSE IF s.setSaplingWatchOnly # {} THEN TRUE
    ELSE FALSE

(***************************************************************************)
(* Sprout keys (cs_SpendingKeyStore).  Sprout spending key k and viewing   *)
(* key k have the address k and the receiving key (sk_enc) k.              *)
(***************************************************************************)
SproutKeys == 1..NumSprout
SproutAddress(k) == k
\* ZCNoteDecryption(sk.receiving_key()), ZCNoteDecryption(vk.sk_enc)
ZCNoteDecryption(k) == k

AddSproutSpendingKey(s, sk) ==
    Result([s EXCEPT !.mapSproutSpendingKeys = MapAssign(@, SproutAddress(sk), sk),
                     !.mapNoteDecryptors = MapInsert(@, SproutAddress(sk), ZCNoteDecryption(sk))],
           TRUE)

AddSproutViewingKey(s, vk) ==
    Result([s EXCEPT !.mapSproutViewingKeys = MapAssign(@, SproutAddress(vk), vk),
                     !.mapNoteDecryptors = MapInsert(@, SproutAddress(vk), ZCNoteDecryption(vk))],
           TRUE)

RemoveSproutViewingKey(s, vk) ==
    Result([s EXCEPT !.mapSproutViewingKeys = MapErase(@, SproutAddress(vk))], TRUE)

HaveSproutViewingKey(s, address) == address \in DOMAIN s.mapSproutViewingKeys

GetSproutViewingKey(s, address, vkOut) ==
    IF address \in DOMAIN s.mapSproutViewingKeys
    THEN Out(TRUE, s.mapSproutViewingKeys[address])
    ELSE Out(FALSE, vkOut)

(***************************************************************************)
(* Sapling keys (cs_SpendingKeyStore).                                     *)
(***************************************************************************)
AddSaplingIncomingViewingKey(s, ivk, addr) ==
    Result([s EXCEPT !.mapSaplingIncomingViewingKeys = MapAssign(@, addr, ivk),
                     !.setSaplingIncomingViewingKeys = @ \cup {ivk}],
           TRUE)

\* the outgoing viewing key is not registered
AddSaplingFullViewingKey_NoOvk(s, extfvk) ==
    LET ivk == in_viewing_key(extfvk)
        s1 == [s EXCEPT !.mapSaplingFullViewingKeys = MapAssign(@, ivk, extfvk)]
    IN  AddSaplingIncomingViewingKey(s1, ivk, DefaultAddress(extfvk))

AddSaplingFullViewingKey(s, extfvk) ==
    LET ivk == in_viewing_key(extfvk)
        s1 == [s EXCEPT !.mapSaplingFullViewingKeys = MapAssign(@, ivk, extfvk),
                        !.setSaplingOutgoingViewingKeys = @ \cup {ovk(extfvk)}]
    IN  AddSaplingIncomingViewingKey(s1, ivk, DefaultAddress(extfvk))

\* the spending key is not stored
AddSaplingSpendingKey_NoStore(s, sk) == AddSaplingFullViewingKey(s, ToXFVK(sk))

AddSaplingSpendingKey(s, sk) ==
    LET extfvk == ToXFVK(sk)
        r == AddSaplingFullViewingKey(s, extfvk)
    IN  IF ~r.ret
        THEN Result(r.ks, FALSE)
        ELSE Result([r.ks EXCEPT !.mapSaplingSpendingKeys = MapAssign(@, extfvk, sk)], TRUE)

DiversifierPath(ivk, path) == <<ivk, path>>

AddSaplingDiversifiedAddess(s, addr, ivk, path) ==
    Result([s EXCEPT !.mapSaplingPaymentAddresses = MapAssign(@, addr, DiversifierPath(ivk, path))],
           TRUE)

AddLastDiversifierUsed(s, ivk, path) ==
    Result([s EXCEPT !.mapLastDiversifierPath = MapAssign(@, ivk, path)], TRUE)

HaveSaplingFullViewingKey(s, ivk) == ivk \in DOMAIN s.mapSaplingFullViewingKeys

HaveSaplingIncomingViewingKey(s, addr) == addr \in DOMAIN s.mapSaplingIncomingViewingKeys

GetSaplingFullViewingKey(s, ivk, extfvkOut) ==
    IF ivk \in DOMAIN s.mapSaplingFullViewingKeys
    THEN Out(TRUE, s.mapSaplingFullViewingKeys[ivk])
    ELSE Out(FALSE, extfvkOut)

GetSaplingIncomingViewingKey(s, addr, ivkOut) ==
    IF addr \in DOMAIN s.mapSaplingIncomingViewingKeys
    THEN Out(TRUE, s.mapSaplingIncomingViewingKeys[addr])
    ELSE Out(FALSE, ivkOut)

\* keystore.h: a lookup of extfvk in mapSaplingSpendingKeys
GetSaplingSpendingKey(s, extfvk, skOut) ==
    IF extfvk \in DOMAIN s.mapSaplingSpendingKeys
    THEN Out(TRUE, s.mapSaplingSpendingKeys[extfvk])
    ELSE Out(FALSE, skOut)

GetSaplingExtendedSpendingKey(s, addr, extskOut) ==
    LET r1 == GetSaplingIncomingViewingKey(s, addr, NoIvk)
        r2 == GetSaplingFullViewingKey(s, r1.out, NoFvk)
        r3 == GetSaplingSpendingKey(s, r2.out, extskOut)
    IN  IF ~r1.ret THEN Out(FALSE, extskOut)
        ELSE IF ~r2.ret THEN Out(FALSE, extskOut)
        ELSE r3

(***************************************************************************)
(* The consolidation operation: its inputs.                                *)
(***************************************************************************)
CONSOLIDATION_EXPIRY_DELTA == 40

\* The addresses that hold notes, and how many notes an address may hold.
NoteAddrs == {1, 2}
NoteCounts == {0, 1, 2, 4, MaxNotes - 1, MaxNotes}
\* saplingEntry.note.value() of the i-th note of address a: 0, 1 or 2
NoteValue(a, i) == (a + i) % 3
SaplingNoteEntry(a, i) == [address |-> a, op |-> <<a, i>>, value |-> NoteValue(a, i)]

\* What GetFilteredNotes returns for a wallet holding count[a] notes of each
\* address a: the notes of the addresses interleaved.
RECURSIVE EntriesFrom(_, _)
EntriesFrom(count, i) ==
    IF i > MaxNotes THEN <<>>
    ELSE (IF i <= count[2] THEN <<SaplingNoteEntry(2, i)>> ELSE <<>>)
         \o (IF i <= count[1] THEN <<SaplingNoteEntry(1, i)>> ELSE <<>>)
         \o EntriesFrom(count, i + 1)

\* pwalletMain->targetConsolidationQty
TargetChoices == {2, 5}
\* fConsolidationTxFee
FeeChoices == {0, MaxFee}
\* rand()
RandHigh == 44
RandValues == (0..MaxRand) \cup {RandHigh}
\* -consolidatesaplingaddress decoded: a Sapling address, or something else
NotSapling == -1
AddressArgs == { [fConsolidationMapUsed |-> FALSE, v |-> <<>>],
                 [fConsolidationMapUsed |-> TRUE, v |-> <<NotSapling, 1>>] }
RECURSIVE FoldKeys(_, _)
FoldKeys(s, sks) ==
    IF sks = {} THEN s
    ELSE LET sk == CHOOSE k \in sks : TRUE
         IN  FoldKeys(AddSaplingSpendingKey(s, sk).ks, sks \ {sk})
\* The key stores a run may meet: the spending key of every address, or of
\* address 1 alone.
JobStores == { FoldKeys(EmptyKeyStore, SaplingSpendingKeys), FoldKeys(EmptyKeyStore, {1}) }
\* boost::optional<int>: no value, or one
NoHeight == <<>>
SomeHeight(h) == <<h>>

(***************************************************************************)
(* The consolidation operation: the computations of main_impl.             *)
(***************************************************************************)
\* extsk.expsk.full_viewing_key().in_viewing_key()
IvkOfSk(extsk) == in_viewing_key(ToXFVK(extsk))

\* a target exactly CONSOLIDATION_EXPIRY_DELTA below the upgrade is let through
InUpgradeWindow_Strict(targetHeight, nextActivationHeight) ==
    /\ nextActivationHeight # NoHeight
    /\ targetHeight + CONSOLIDATION_EXPIRY_DELTA > nextActivationHeight[1]

InUpgradeWindow(targetHeight, nextActivationHeight) ==
    /\ nextActivationHeight # NoHeight
    /\ targetHeight + CONSOLIDATION_EXPIRY_DELTA >= nextActivationHeight[1]

\* the set `addresses`: the Sapling addresses among the arguments
AllowedAddresses(v) == { v[i] : i \in { j \in 1..Len(v) : v[j] # NotSapling } }

RECURSIVE MapNotesByAddress(_, _, _, _)
MapNotesByAddress(saplingEntries, addresses, mapUsed, mapAddresses) ==
    IF saplingEntries = <<>> THEN mapAddresses
    ELSE LET entry == Head(saplingEntries)
             next == IF entry.address \in addresses \/ ~mapUsed
                     THEN IF entry.address \in DOMAIN mapAddresses
                          THEN [mapAddresses EXCEPT ![entry.address] = Append(@, entry)]
                          ELSE MapAssign(mapAddresses, entry.address, <<entry>>)
                     ELSE mapAddresses
         IN  MapNotesByAddress(Tail(saplingEntries), addresses, mapUsed, next)

\* The keys of a std::map in iteration order (ascending).
RECURSIVE Ascending(_)
Ascending(S) ==
    IF S = {} THEN <<>>
    ELSE LET m == CHOOSE x \in S : \A y \in S : x <= y
         IN  <<m>> \o Ascending(S \ {m})

\* The test both note loops make of a note.
NoteIsFrom(s, saplingEntry, addr, extsk) ==
    /\ GetSaplingIncomingViewingKey(s, saplingEntry.address, NoIvk).out = IvkOfSk(extsk)
    /\ saplingEntry.address = addr

NoteCount(s, saplingEntries, addr, extsk) ==
    Cardinality({ i \in 1..Len(saplingEntries) : NoteIsFrom(s, saplingEntries[i], addr, extsk) })

Selection(fromNotes, amountToSend) == [fromNotes |-> fromNotes, amountToSend |-> amountToSend]

\* the selection does not stop at maxQuantity
SelectNotes_All(s, saplingEntries, addr, extsk, maxQuantity, sel) ==
    LET notes == SelectSeq(saplingEntries, LAMBDA e : NoteIsFrom(s, e, addr, extsk))
        sum[i \in 0..Len(notes)] == IF i = 0 THEN 0 ELSE sum[i - 1] + notes[i].value
    IN  Selection(notes, sum[Len(notes)])

RECURSIVE SelectNotes(_, _, _, _, _, _)
SelectNotes(s, saplingEntries, addr, extsk, maxQuantity, sel) ==
    IF saplingEntries = <<>> THEN sel
    ELSE LET saplingEntry == Head(saplingEntries)
             next == IF NoteIsFrom(s, saplingEntry, addr, extsk)
                     THEN Selection(Append(sel.fromNotes, saplingEntry),
                                    sel.amountToSend + saplingEntry.value)
                     ELSE sel
         IN  IF Len(next.fromNotes) >= maxQuantity THEN next
             ELSE SelectNotes(s, Tail(saplingEntries), addr, extsk, maxQuantity, next)

MaxQuantityOf(rnd) == (rnd % 35) + 10
MinQuantityOf(rnd) == (rnd % 10) + 2

\* the comparison turned around
BelowThreshold_Swapped(noteCount, targetCount) == noteCount > targetCount

BelowThreshold(noteCount, targetCount) == noteCount < targetCount

TooFewNotes(size, minQuantity) == size < minQuantity

\* the fee is kept when the amount equals it
ComputeFee_Strict(amountToSend, fConsolidationTxFee) ==
    IF amountToSend < fConsolidationTxFee THEN 0 ELSE fConsolidationTxFee

ComputeFee(amountToSend, fConsolidationTxFee) ==
    IF amountToSend <= fConsolidationTxFee THEN 0 ELSE fConsolidationTxFee

(***************************************************************************)
(* The transaction builder and the wallet's commit.                        *)
(***************************************************************************)
NoBuilder == [expiryHeight |-> 0, spends |-> <<>>, fee |-> 0, outputs |-> <<>>]
NoTx == <<>>

RECURSIVE SumValues(_)
SumValues(notes) == IF notes = <<>> THEN 0 ELSE Head(notes).value + SumValues(Tail(notes))

\* builder.AddSaplingSpend for each note up to the first missing witness
RECURSIVE AddSaplingSpends(_, _, _, _)
AddSaplingSpends(builder, notes, witnesses, i) ==
    IF i > Len(notes) THEN builder
    ELSE IF ~witnesses[i] THEN builder
    ELSE AddSaplingSpends([builder EXCEPT !.spends = Append(@, notes[i])], notes, witnesses, i + 1)

SetFee(builder, fee) == [builder EXCEPT !.fee = fee]

AddSaplingOutput(builder, outKey, addr, value) ==
    [builder EXCEPT !.outputs = Append(@, [ovk |-> outKey, address |-> addr, value |-> value])]

\* Build() can produce a transaction only if the spends pay for the outputs
\* and the fee.
CanBuild(builder) ==
    SumValues(builder.spends) >= SumValues(builder.outputs) + builder.fee

TxOf(builder) == <<builder>>

\* tx.GetHash().ToString()
TxId(tx) == <<"txid", tx.outputs[1].address, Len(tx.spends), tx.outputs[1].value>>

(***************************************************************************)
(* The operation object.                                                   *)
(***************************************************************************)
isCancelled == op.state_ = "CANCELLED"

set_state(state) == [op EXCEPT !.state_ = state]

NoResult == <<>>
ConsolidationResult(numTxCreated, amountConsolidated, consolidationTxIds) ==
    [num_tx_created |-> numTxCreated,
     amount_consolidated |-> amountConsolidated,
     consolidation_txids |-> consolidationTxIds]

\* the locals of one pass of the loop over the addresses, before they are set
IterationLocals ==
    [addr |-> 0, extsk |-> NoSk, maxQuantity |-> 0, minQuantity |-> 0,
     fromNotes |-> <<>>, amountToSend |-> 0, fee |-> 0,
     builder |-> NoBuilder, witnesses |-> <<>>, maybe_tx |-> NoTx]

NoLocals ==
    [success |-> FALSE, mapAddresses |-> EmptyMap, it |-> <<>>,
     numTxCreated |-> 0, consolidationTxIds |-> <<>>, amountConsolidated |-> 0,
     consolidationComplete |-> TRUE, iter |-> IterationLocals]

NewOperation(targetHeight) ==
    [targetHeight_ |-> targetHeight, state_ |-> "READY", error_code |-> 0,
     error_message |-> "", result |-> NoResult, clock |-> "unset"]

NoThrow == <<>>
NoFailure == <<>>
NoHistory ==
    [skipped |-> EmptyMap, attempted |-> {}, built |-> {}, failed |-> NoFailure,
     thrown |-> NoThrow, cancelCalled |-> FALSE, commitsAtCancel |-> 0]

(***************************************************************************)
(* The calls of the key store's methods.  Each is one atomic action (the   *)
(* method holds its lock from entry to return) that leaves the new store   *)
(* in ks and the call in lastOp.                                           *)
(***************************************************************************)
Op(name, a1, a2, ret) == [op |-> name, a1 |-> a1, a2 |-> a2, ret |-> ret]
NoOp == Op("none", 0, 0, TRUE)
ScriptOf(id) == CHOOSE script \in Scripts : script.id = id

(***************************************************************************)
(* The critical sections of the key store and the threads that call it.    *)
(* A critical section is recursive: the thread that owns it may enter it   *)
(* again.  A call is the sequence of steps its method takes: LOCK(c), the  *)
(* work done under the lock, the calls of other methods (with their own    *)
(* LOCK), and the unlock at the end of each scope.                         *)
(***************************************************************************)
cs_KeyStore == "cs_KeyStore"
cs_SpendingKeyStore == "cs_SpendingKeyStore"
CriticalSections == {cs_KeyStore, cs_SpendingKeyStore}
NoThread == 0
Threads == {1, 2}
\* the members of the store that the methods use under each critical section
Members(c) ==
    IF c = cs_KeyStore
    THEN {"mapKeys", "mapScripts", "setWatchOnly", "setSaplingWatchOnly"}
    ELSE DOMAIN EmptyKeyStore \ {"mapKeys", "mapScripts", "setWatchOnly", "setSaplingWatchOnly"}
Unlocked == [c \in CriticalSections |-> [owner |-> NoThread, count |-> 0]]

Step(k, x, c) == [k |-> k, x |-> x, c |-> c]
\* LOCK(c)
Lock(c) == Step("LOCK", c, FALSE)
\* the end of the scope of a LOCK(c)
Unlock(c) == Step("UNLOCK", c, FALSE)
\* the statements of a method between its LOCK and its return
Do(x) == Step("DO", x, FALSE)
\* a call on the right of &&: made only if the calls before it returned true
IfOk(steps) == [i \in 1..Len(steps) |-> [steps[i] EXCEPT !.c = TRUE]]

\* the method's body runs without its lock
Critical_Unlocked(c, body) == body

Critical(c, body) == <<Lock(c)>> \o body \o <<Unlock(c)>>

RECURSIVE Program(_, _)
Program(m, a1) ==
    CASE m = "AddKey" -> Program("AddKeyPubKey", a1)
      [] m = "AddCScript" ->
             IF ScriptOf(a1).size > MAX_SCRIPT_ELEMENT_SIZE
             THEN <<Do("return false")>>
             ELSE Critical(cs_KeyStore, <<Do(m)>>)
      [] m \in {"AddKeyPubKey", "GetCScript", "AddWatchOnly", "RemoveWatchOnly",
                "AddSaplingWatchOnly", "RemoveSaplingWatchOnly", "HaveWatchOnly"} ->
             Critical(cs_KeyStore, <<Do(m)>>)
      [] m \in {"SetHDSeed", "GetHDSeed", "AddSproutSpendingKey", "AddSproutViewingKey",
                "RemoveSproutViewingKey", "AddSaplingIncomingViewingKey",
                "AddLastDiversifierUsed",
                "GetSaplingIncomingViewingKey", "GetSaplingFullViewingKey",
                "GetSaplingSpendingKey"} ->
             Critical(cs_SpendingKeyStore, <<Do(m)>>)
      [] m = "AddSaplingFullViewingKey" ->
             Critical(cs_SpendingKeyStore,
                      <<Do("mapSaplingFullViewingKeys")>>
                      \o Program("AddSaplingIncomingViewingKey", a1))
      [] m = "AddSaplingSpendingKey" ->
             Critical(cs_SpendingKeyStore,
                      Program("AddSaplingFullViewingKey", a1)
                      \o IfOk(<<Do("mapSaplingSpendingKeys")>>))
      [] m = "GetSaplingExtendedSpendingKey" ->
             Critical(cs_SpendingKeyStore,
                      Program("GetSaplingIncomingViewingKey", a1)
                      \o IfOk(Program("GetSaplingFullViewingKey", a1))
                      \o IfOk(Program("GetSaplingSpendingKey", a1)))

\* a thread that is in no call of the store
Idle ==
    [m |-> "none", a1 |-> 0, a2 |-> 0, prog |-> <<>>, ret |-> TRUE,
     extfvk |-> NoFvk, ivk |-> NoIvk, addr |-> 0, out |-> 0, snap |-> <<>>]

\* a thread entering method m with the arguments a1, a2
Enter(m, a1, a2) ==
    [Idle EXCEPT !.m = m, !.a1 = a1, !.a2 = a2, !.prog = Program(m, a1),
                 !.extfvk = CASE m = "AddSaplingSpendingKey" -> ToXFVK(a1)
                              [] m = "AddSaplingFullViewingKey" -> a1
                              [] OTHER -> NoFvk,
                 !.ivk = IF m = "AddSaplingIncomingViewingKey" THEN a1 ELSE NoIvk,
                 !.addr = CASE m = "AddSaplingIncomingViewingKey" -> a2
                            [] m = "GetSaplingExtendedSpendingKey" -> a1
                            [] OTHER -> 0]

\* the steps without the leading calls that are not made
RECURSIVE NotMade(_)
NotMade(prog) ==
    IF prog # <<>> /\ Head(prog).c THEN NotMade(Tail(prog)) ELSE prog

\* the steps left after one step: when a call has returned false, the calls
\* on the right of its && are not made
Rest(prog, ret) ==
    IF prog # <<>> /\ Head(prog).c /\ Head(prog).k # "UNLOCK" /\ ~ret
    THEN NotMade(prog)
    ELSE prog

jobVars == <<wallet, chain, args, op, pc, loc, hist>>
lockVars == <<cs, thread>>

Call(name, a1, a2, r) ==
    /\ ks' = r.ks
    /\ lastOp' = Op(name, a1, a2, r.ret)
    /\ UNCHANGED <<jobVars, lockVars>>

CallSetHDSeed ==
    \E seed \in HDSeeds : Call("SetHDSeed", seed, 0, SetHDSeed(ks, seed))

CallAddKeyPubKey ==
    \E key \in Keys, pubkey \in PubKeys :
        Call("AddKeyPubKey", key, pubkey, AddKeyPubKey(ks, key, pubkey))

CallAddKey ==
    \E key \in Keys : Call("AddKey", key, 0, AddKey(ks, key))

CallAddCScript ==
    \E redeemScript \in Scripts :
        Call("AddCScript", redeemScript.id, 0, AddCScript(ks, redeemScript))

CallAddWatchOnly ==
    \E dest \in Scripts : Call("AddWatchOnly", dest.id, 0, AddWatchOnly(ks, dest))

CallAddSaplingWatchOnly ==
    \E extfvk \in SaplingFullViewingKeys :
        Call("AddSaplingWatchOnly", extfvk, 0, AddSaplingWatchOnly(ks, extfvk))

CallRemoveWatchOnly ==
    \E dest \in Scripts : Call("RemoveWatchOnly", dest.id, 0, RemoveWatchOnly(ks, dest))

CallRemoveSaplingWatchOnly ==
    \E extfvk \in SaplingFullViewingKeys :
        Call("RemoveSaplingWatchOnly", extfvk, 0, RemoveSaplingWatchOnly(ks, extfvk))

CallAddSproutSpendingKey ==
    \E sk \in SproutKeys : Call("AddSproutSpendingKey", sk, 0, AddSproutSpendingKey(ks, sk))

CallAddSproutViewingKey ==
    \E vk \in SproutKeys : Call("AddSproutViewingKey", vk, 0, AddSproutViewingKey(ks, vk))

CallRemoveSproutViewingKey ==
    \E vk \in SproutKeys : Call("RemoveSproutViewingKey", vk, 0, RemoveSproutViewingKey(ks, vk))

CallAddSaplingSpendingKey ==
    \E sk \in SaplingSpendingKeys :
        Call("AddSaplingSpendingKey", sk, 0, AddSaplingSpendingKey(ks, sk))

CallAddSaplingFullViewingKey ==
    \E extfvk \in SaplingFullViewingKeys :
        Call("AddSaplingFullViewingKey", extfvk, 0, AddSaplingFullViewingKey(ks, extfvk))

CallAddSaplingIncomingViewingKey ==
    \E ivk \in SaplingIncomingViewingKeys, addr \in SaplingPaymentAddresses :
        Call("AddSaplingIncomingViewingKey", ivk, addr, AddSaplingIncomingViewingKey(ks, ivk, addr))

CallAddSaplingDiversifiedAddess ==
    \E addr \in SaplingPaymentAddresses, ivk \in SaplingIncomingViewingKeys, path \in 1..NumPaths :
        Call("AddSaplingDiversifiedAddess", addr, ivk, AddSaplingDiversifiedAddess(ks, addr, ivk, path))

CallAddLastDiversifierUsed ==
    \E ivk \in SaplingIncomingViewingKeys, path \in 1..NumPaths :
        Call("AddLastDiversifierUsed", ivk, path, AddLastDiversifierUsed(ks, ivk, path))

vars == <<cs, thread, ks, lastOp, wallet, chain, args, op, pc, loc, hist>>

(***************************************************************************)
(* A thread's call of a method of the store, step by step.                 *)
(***************************************************************************)
Effect(s, th) == [ks |-> s, th |-> th]
Returns(r, th) == Effect(r.ks, [th EXCEPT !.ret = r.ret])

\* what the statements of a method do to the store and to the caller
DoStep(x, s, th) ==
    CASE x = "return false" -> Effect(s, [th EXCEPT !.ret = FALSE])
      [] x = "AddKeyPubKey" ->
             Returns(AddKeyPubKey(s, th.a1, IF th.m = "AddKey" THEN GetPubKey(th.a1) ELSE th.a2), th)
      [] x = "AddCScript" -> Returns(AddCScript(s, ScriptOf(th.a1)), th)
      [] x = "GetCScript" ->
             LET r == GetCScript(s, th.a1, NoScript)
             IN  Effect(s, [th EXCEPT !.ret = r.ret, !.out = r.out.id])
      [] x = "AddWatchOnly" -> Returns(AddWatchOnly(s, ScriptOf(th.a1)), th)
      [] x = "RemoveWatchOnly" -> Returns(RemoveWatchOnly(s, ScriptOf(th.a1)), th)
      [] x = "AddSaplingWatchOnly" -> Returns(AddSaplingWatchOnly(s, th.a1), th)
      [] x = "RemoveSaplingWatchOnly" -> Returns(RemoveSaplingWatchOnly(s, th.a1), th)
      [] x = "HaveWatchOnly" -> Effect(s, [th EXCEPT !.ret = HaveWatchOnly(s)])
      [] x = "SetHDSeed" -> Returns(SetHDSeed(s, th.a1), th)
      [] x = "GetHDSeed" ->
             LET r == GetHDSeed(s, NullSeed)
             IN  Effect(s, [th EXCEPT !.ret = r.ret, !.out = r.out])
      [] x = "AddSproutSpendingKey" -> Returns(AddSproutSpendingKey(s, th.a1), th)
      [] x = "AddSproutViewingKey" -> Returns(AddSproutViewingKey(s, th.a1), th)
      [] x = "RemoveSproutViewingKey" -> Returns(RemoveSproutViewingKey(s, th.a1), th)
      [] x = "AddLastDiversifierUsed" -> Returns(AddLastDiversifierUsed(s, th.a1, th.a2), th)
      \* AddSaplingFullViewingKey, before it calls AddSaplingIncomingViewingKey
      [] x = "mapSaplingFullViewingKeys" ->
             LET ivk == in_viewing_key(th.extfvk)
             IN  Effect([s EXCEPT !.mapSaplingFullViewingKeys = MapAssign(@, ivk, th.extfvk),
                                  !.setSaplingOutgoingViewingKeys = @ \cup {ovk(th.extfvk)}],
                        [th EXCEPT !.ivk = ivk, !.addr = DefaultAddress(th.extfvk)])
      [] x = "AddSaplingIncomingViewingKey" ->
             Returns(AddSaplingIncomingViewingKey(s, th.ivk, th.addr), th)
      \* AddSaplingSpendingKey, after AddSaplingFullViewingKey has returned true
      [] x = "mapSaplingSpendingKeys" ->
             Effect([s EXCEPT !.mapSaplingSpendingKeys = MapAssign(@, th.extfvk, th.a1)],
                    [th EXCEPT !.ret = TRUE])
      [] x = "GetSaplingIncomingViewingKey" ->
             LET r == GetSaplingIncomingViewingKey(s, th.addr, NoIvk)
             IN  Effect(s, [th EXCEPT !.ret = r.ret, !.ivk = r.out])
      [] x = "GetSaplingFullViewingKey" ->
             LET r == GetSaplingFullViewingKey(s, th.ivk, NoFvk)
             IN  Effect(s, [th EXCEPT !.ret = r.ret, !.extfvk = r.out])
      [] x = "GetSaplingSpendingKey" ->
             LET r == GetSaplingSpendingKey(s, th.extfvk, NoSk)
             IN  Effect(s, [th EXCEPT !.ret = r.ret, !.out = r.out])

ThreadCall(m, a1, a2) == [m |-> m, a1 |-> a1, a2 |-> a2]

\* the calls the threads make: of each partition a writer, a reader and a
\* method that calls another; a script within the maximum size and one over it
ThreadCalls ==
    { ThreadCall("AddKey", 1, 0),
      ThreadCall("AddCScript", 2, 0),
      ThreadCall("AddCScript", 3, 0),
      ThreadCall("AddWatchOnly", 1, 0),
      ThreadCall("RemoveWatchOnly", 1, 0),
      ThreadCall("HaveWatchOnly", 0, 0),
      ThreadCall("AddSaplingSpendingKey", 1, 0),
      ThreadCall("AddSaplingFullViewingKey", 0, 0),
      ThreadCall("GetSaplingExtendedSpendingKey", 1, 0) }

\* the thread has taken a step: it goes on, or its call has returned
Continue(t, th) ==
    LET rest == Rest(Tail(thread[t].prog), th.ret)
    IN  IF rest = <<>>
        THEN /\ thread' = [thread EXCEPT ![t] = Idle]
             /\ lastOp' = Op(th.m, th.a1, th.a2, th.ret)
        ELSE /\ thread' = [thread EXCEPT ![t] = [th EXCEPT !.prog = rest]]
             /\ UNCHANGED lastOp

ThreadEnter(t) ==
    /\ thread[t] = Idle
    /\ \E call \in ThreadCalls :
           thread' = [thread EXCEPT ![t] = Enter(call.m, call.a1, call.a2)]
    /\ UNCHANGED <<cs, ks, lastOp, jobVars>>

\* LOCK(c): the thread waits until the critical section is free or its own
ThreadLock(t) ==
    /\ thread[t].prog # <<>>
    /\ Head(thread[t].prog).k = "LOCK"
    /\ LET c == Head(thread[t].prog).x
       IN  /\ cs[c].owner \in {NoThread, t}
           /\ cs' = [cs EXCEPT ![c] = [owner |-> t, count |-> cs[c].count + 1]]
           /\ thread' = [thread EXCEPT ![t].prog = Tail(@),
                                       ![t].snap = IF cs[c].count = 0
                                                   THEN [f \in Members(c) |-> ks[f]]
                                                   ELSE @]
    /\ UNCHANGED <<ks, lastOp, jobVars>>

ThreadDo(t) ==
    /\ thread[t].prog # <<>>
    /\ Head(thread[t].prog).k = "DO"
    /\ LET e == DoStep(Head(thread[t].prog).x, ks, thread[t])
       IN  /\ ks' = e.ks
           /\ Continue(t, e.th)
    /\ UNCHANGED <<cs, jobVars>>

\* the end of a LOCK's scope
ThreadUnlock(t) ==
    /\ thread[t].prog # <<>>
    /\ Head(thread[t].prog).k = "UNLOCK"
    /\ LET c == Head(thread[t].prog).x
       IN  cs' = [cs EXCEPT ![c] = IF cs[c].count = 1 THEN Unlocked[c]
                                   ELSE [owner |-> t, count |-> cs[c].count - 1]]
    /\ Continue(t, thread[t])
    /\ UNCHANGED <<ks, jobVars>>

(***************************************************************************)
(* main(), main_impl() and cancel().  The worker thread runs main(); any   *)
(* other thread may call cancel() at any time.  A step of the worker is    *)
(* the code between two places where it reads or writes the operation's    *)
(* state or calls the wallet, the witness service or the builder.          *)
(***************************************************************************)
Wallet(count, targetCount) ==
    [notes |-> EntriesFrom(count, 1),
     targetConsolidationQty |-> targetCount,
     nextConsolidation |-> ChainTip,
     fConsolidationRunning |-> TRUE,
     initializeConsolidationInterval |-> Interval,
     committed |-> <<>>]

TargetHeight == ChainTip + 1

UpgradeHeights ==
    { NoHeight,
      SomeHeight(TargetHeight + CONSOLIDATION_EXPIRY_DELTA),
      SomeHeight(TargetHeight + CONSOLIDATION_EXPIRY_DELTA + 1) }

\* The catch clauses of main(): the error code and message of each exception.
ExceptionKinds == {"UniValue", "runtime_error", "logic_error", "exception", "unknown"}
ErrorCodes == {-4}
\* the codes of the recognized and of the unknown exceptions exchanged
CatchCode_Swapped(kind, code) ==
    CASE kind = "UniValue" -> code
      [] kind = "unknown" -> -1
      [] OTHER -> -2

CatchCode(kind, code) ==
    CASE kind = "UniValue" -> code
      [] kind = "unknown" -> -2
      [] OTHER -> -1
CatchMessage(kind) ==
    CASE kind = "UniValue" -> "message"
      [] kind = "runtime_error" -> "runtime error: what"
      [] kind = "logic_error" -> "logic error: what"
      [] kind = "exception" -> "general exception: what"
      [] OTHER -> "unknown error"

\* `continue`, or the end of the loop's body: the iterator moves on
NextAddress(l) == [l EXCEPT !.it = Tail(@), !.iter = IterationLocals]
\* `break`
LeaveLoop(l) == [l EXCEPT !.iter = IterationLocals]
Skip(h, addr, why) == [h EXCEPT !.skipped = MapAssign(@, addr, why)]

\* main(): if (isCancelled()) return;
MainStart ==
    /\ pc = "main"
    /\ pc' = IF isCancelled THEN "returned" ELSE "set_executing"
    /\ UNCHANGED <<cs, thread, ks, lastOp, wallet, chain, args, op, loc, hist>>

\* main(): set_state(EXECUTING); start_execution_clock(); success = false
MainSetExecuting ==
    /\ pc = "set_executing"
    /\ op' = [set_state("EXECUTING") EXCEPT !.clock = "running"]
    /\ loc' = [loc EXCEPT !.success = FALSE]
    /\ pc' = "main_impl"
    /\ UNCHANGED <<cs, thread, ks, lastOp, wallet, chain, args, hist>>

\* main_impl(): the check of the next network upgrade
ImplUpgradeCheck ==
    /\ pc = "main_impl"
    /\ IF InUpgradeWindow(op.targetHeight_, chain.nextActivationHeight)
       THEN /\ op' = [op EXCEPT !.result = ConsolidationResult(0, 0, <<>>)]
            /\ loc' = [loc EXCEPT !.success = TRUE]
            /\ pc' = "finish"
       ELSE /\ pc' = "get_notes"
            /\ UNCHANGED <<op, loc>>
    /\ UNCHANGED <<cs, thread, ks, lastOp, wallet, chain, args, hist>>

\* main_impl(): GetFilteredNotes, the notes mapped by address, the locals
ImplGetNotes ==
    /\ pc = "get_notes"
    /\ LET mapAddresses == MapNotesByAddress(wallet.notes, AllowedAddresses(args.v),
                                             args.fConsolidationMapUsed, EmptyMap)
       IN  loc' = [loc EXCEPT !.mapAddresses = mapAddresses,
                              !.it = Ascending(DOMAIN mapAddresses),
                              !.numTxCreated = 0,
                              !.consolidationTxIds = <<>>,
                              !.amountConsolidated = 0,
                              !.consolidationComplete = TRUE]
    /\ pc' = "loop"
    /\ UNCHANGED <<cs, thread, ks, lastOp, wallet, chain, args, op, hist>>

\* main_impl(): the head of the loop: the spending key, the count of the
\* address's notes, the threshold
ImplLoop ==
    /\ pc = "loop"
    /\ IF loc.it = <<>>
       THEN /\ pc' = "after_loop"
            /\ UNCHANGED <<loc, hist>>
       ELSE LET addr == Head(loc.it)
                saplingEntries == loc.mapAddresses[addr]
                key == GetSaplingExtendedSpendingKey(ks, addr, NoSk)
            IN  IF ~key.ret
                THEN /\ loc' = NextAddress(loc)
                     /\ hist' = Skip(hist, addr, "nokey")
                     /\ pc' = "loop"
                ELSE \E rnd \in RandValues :
                     LET extsk == key.out
                         maxQuantity == MaxQuantityOf(rnd)
                         targetCount == wallet.targetConsolidationQty
                         noteCount == NoteCount(ks, saplingEntries, addr, extsk)
                     IN  IF BelowThreshold(noteCount, targetCount)
                         THEN /\ loc' = NextAddress(loc)
                              /\ hist' = Skip(hist, addr, "threshold")
                              /\ pc' = "loop"
                         ELSE /\ loc' = [loc EXCEPT !.consolidationComplete = FALSE,
                                                    !.iter.addr = addr,
                                                    !.iter.extsk = extsk,
                                                    !.iter.maxQuantity = maxQuantity]
                              /\ pc' = "select"
                              /\ UNCHANGED hist
    /\ UNCHANGED <<cs, thread, ks, lastOp, wallet, chain, args, op>>

\* main_impl(): the notes to spend, up to maxQuantity of them
ImplSelect ==
    /\ pc = "select"
    /\ LET sel == SelectNotes(ks, loc.mapAddresses[loc.iter.addr], loc.iter.addr,
                              loc.iter.extsk, loc.iter.maxQuantity, Selection(<<>>, 0))
       IN  loc' = [loc EXCEPT !.iter.fromNotes = sel.fromNotes,
                              !.iter.amountToSend = sel.amountToSend]
    /\ pc' = "min_check"
    /\ UNCHANGED <<cs, thread, ks, lastOp, wallet, chain, args, op, hist>>

\* main_impl(): the random minimum, the fee, the builder and its expiry height
ImplMinCheck ==
    /\ pc = "min_check"
    /\ \E rnd \in RandValues :
       LET minQuantity == MinQuantityOf(rnd)
           fee == ComputeFee(loc.iter.amountToSend, args.fConsolidationTxFee)
       IN  IF TooFewNotes(Len(loc.iter.fromNotes), minQuantity)
           THEN /\ loc' = NextAddress(loc)
                /\ hist' = Skip(hist, loc.iter.addr, "minimum")
                /\ pc' = "loop"
           ELSE /\ loc' = [loc EXCEPT
                      !.iter.minQuantity = minQuantity,
                      !.iter.fee = fee,
                      !.amountConsolidated = @ + loc.iter.amountToSend,
                      !.iter.builder = [NoBuilder EXCEPT
                          !.expiryHeight = chain.tip + CONSOLIDATION_EXPIRY_DELTA]]
                /\ hist' = [hist EXCEPT !.attempted = @ \cup {loc.iter.addr}]
                /\ pc' = "witnesses"
    /\ UNCHANGED <<cs, thread, ks, lastOp, wallet, chain, args, op>>

\* The witnesses GetSaplingNoteWitnesses may return for n notes: all, or all
\* but the first, or all but the last.
WitnessChoices(n) ==
    { [i \in 1..n |-> i # missing] : missing \in {0, 1, n} }

\* main_impl(): GetSaplingNoteWitnesses
ImplWitnesses ==
    /\ pc = "witnesses"
    /\ \E witnesses \in WitnessChoices(Len(loc.iter.fromNotes)) :
           loc' = [loc EXCEPT !.iter.witnesses = witnesses]
    /\ pc' = "spends"
    /\ UNCHANGED <<cs, thread, ks, lastOp, wallet, chain, args, op, hist>>

\* main_impl(): the spends (up to the first missing witness), the fee, the output
ImplSpends ==
    /\ pc = "spends"
    /\ LET it == loc.iter
           b1 == AddSaplingSpends(it.builder, it.fromNotes, it.witnesses, 1)
           b2 == SetFee(b1, it.fee)
           b3 == AddSaplingOutput(b2, ovk(ToXFVK(it.extsk)), it.addr, it.amountToSend - it.fee)
       IN  loc' = [loc EXCEPT !.iter.builder = b3]
    /\ pc' = "build"
    /\ UNCHANGED <<cs, thread, ks, lastOp, wallet, chain, args, op, hist>>

\* a failed build skips the address only
ImplBuild_Continue ==
    /\ pc = "build"
    /\ \E built \in BOOLEAN :
           IF built /\ CanBuild(loc.iter.builder)
           THEN /\ loc' = [loc EXCEPT !.iter.maybe_tx = TxOf(loc.iter.builder)]
                /\ hist' = [hist EXCEPT !.built = @ \cup {loc.iter.addr}]
                /\ pc' = "check_cancel"
           ELSE /\ loc' = NextAddress(loc)
                /\ hist' = [hist EXCEPT !.built = @ \cup {loc.iter.addr},
                                        !.failed = <<loc.iter.addr, Len(wallet.committed)>>]
                /\ pc' = "loop"
    /\ UNCHANGED <<cs, thread, ks, lastOp, wallet, chain, args, op>>

\* main_impl(): builder.Build(); no transaction: break
ImplBuild ==
    /\ pc = "build"
    /\ \E built \in BOOLEAN :
           IF built /\ CanBuild(loc.iter.builder)
           THEN /\ loc' = [loc EXCEPT !.iter.maybe_tx = TxOf(loc.iter.builder)]
                /\ hist' = [hist EXCEPT !.built = @ \cup {loc.iter.addr}]
                /\ pc' = "check_cancel"
           ELSE /\ loc' = LeaveLoop(loc)
                /\ hist' = [hist EXCEPT !.built = @ \cup {loc.iter.addr},
                                        !.failed = <<loc.iter.addr, Len(wallet.committed)>>]
                /\ pc' = "after_loop"
    /\ UNCHANGED <<cs, thread, ks, lastOp, wallet, chain, args, op>>

\* main_impl(): if (isCancelled()) break;
ImplCheckCancel ==
    /\ pc = "check_cancel"
    /\ IF isCancelled
       THEN /\ loc' = LeaveLoop(loc)
            /\ pc' = "after_loop"
       ELSE /\ pc' = "commit"
            /\ UNCHANGED loc
    /\ UNCHANGED <<cs, thread, ks, lastOp, wallet, chain, args, op, hist>>

\* main_impl(): CommitAutomatedTx, the amount and the id recorded
ImplCommit ==
    /\ pc = "commit"
    /\ LET tx == loc.iter.maybe_tx[1]
       IN  /\ wallet' = [wallet EXCEPT !.committed = Append(@, tx)]
           /\ loc' = NextAddress([loc EXCEPT
                  !.amountConsolidated = @ + loc.iter.amountToSend - loc.iter.fee,
                  !.consolidationTxIds = Append(@, TxId(tx))])
    /\ pc' = "loop"
    /\ UNCHANGED <<cs, thread, ks, lastOp, chain, args, op, hist>>

\* the running flag is not cleared
ImplAfterLoop_FlagKept ==
    /\ pc = "after_loop"
    /\ wallet' = IF loc.consolidationComplete
                 THEN [wallet EXCEPT
                          !.nextConsolidation = wallet.initializeConsolidationInterval + chain.tip]
                 ELSE wallet
    /\ op' = [op EXCEPT !.result = ConsolidationResult(loc.numTxCreated, loc.amountConsolidated,
                                                       loc.consolidationTxIds)]
    /\ loc' = [loc EXCEPT !.success = TRUE]
    /\ pc' = "finish"
    /\ UNCHANGED <<cs, thread, ks, lastOp, chain, args, hist>>

\* the run is marked complete whatever the flag says
ImplAfterLoop_Always ==
    /\ pc = "after_loop"
    /\ wallet' = [wallet EXCEPT
                     !.nextConsolidation = wallet.initializeConsolidationInterval + chain.tip,
                     !.fConsolidationRunning = FALSE]
    /\ op' = [op EXCEPT !.result = ConsolidationResult(loc.numTxCreated, loc.amountConsolidated,
                                                       loc.consolidationTxIds)]
    /\ loc' = [loc EXCEPT !.success = TRUE]
    /\ pc' = "finish"
    /\ UNCHANGED <<cs, thread, ks, lastOp, chain, args, hist>>

\* main_impl(): after the loop: the run marked complete, the result set
ImplAfterLoop ==
    /\ pc = "after_loop"
    /\ wallet' = IF loc.consolidationComplete
                 THEN [wallet EXCEPT
                          !.nextConsolidation = wallet.initializeConsolidationInterval + chain.tip,
                          !.fConsolidationRunning = FALSE]
                 ELSE wallet
    /\ op' = [op EXCEPT !.result = ConsolidationResult(loc.numTxCreated, loc.amountConsolidated,
                                                       loc.consolidationTxIds)]
    /\ loc' = [loc EXCEPT !.success = TRUE]
    /\ pc' = "finish"
    /\ UNCHANGED <<cs, thread, ks, lastOp, chain, args, hist>>

\* main(): an exception out of main_impl() (thrown by the wallet, the witness
\* service or the builder), caught
ImplThrow ==
    /\ pc \in {"get_notes", "witnesses", "spends", "build", "commit"}
    /\ \E kind \in ExceptionKinds, code \in ErrorCodes :
           /\ op' = [op EXCEPT !.error_code = CatchCode(kind, code),
                               !.error_message = CatchMessage(kind)]
           /\ hist' = [hist EXCEPT !.thrown = <<kind, code>>]
    /\ loc' = LeaveLoop(loc)
    /\ pc' = "finish"
    /\ UNCHANGED <<cs, thread, ks, lastOp, wallet, chain, args>>

\* main(): stop_execution_clock(); set_state(SUCCESS) or set_state(FAILED)
MainFinish ==
    /\ pc = "finish"
    /\ op' = [set_state(IF loc.success THEN "SUCCESS" ELSE "FAILED") EXCEPT !.clock = "stopped"]
    /\ pc' = "returned"
    /\ UNCHANGED <<cs, thread, ks, lastOp, wallet, chain, args, loc, hist>>

\* cancel(), from any thread at any time
Cancel ==
    /\ op' = set_state("CANCELLED")
    /\ hist' = IF hist.cancelCalled THEN hist
               ELSE [hist EXCEPT !.cancelCalled = TRUE,
                                 !.commitsAtCancel = Len(wallet.committed)
                                                     + (IF pc = "commit" THEN 1 ELSE 0)]
    /\ UNCHANGED <<cs, thread, ks, lastOp, wallet, chain, args, pc, loc>>

JobInit ==
    /\ cs = Unlocked
    /\ thread = [t \in Threads |-> Idle]
    /\ ks \in JobStores
    /\ lastOp = NoOp
    /\ wallet \in { Wallet(count, targetCount) :
                        count \in [NoteAddrs -> NoteCounts], targetCount \in TargetChoices }
    /\ chain \in { [tip |-> ChainTip, nextActivationHeight |-> h] : h \in UpgradeHeights }
    /\ args \in { [fConsolidationTxFee |-> fee, fConsolidationMapUsed |-> a.fConsolidationMapUsed,
                   v |-> a.v] : fee \in FeeChoices, a \in AddressArgs }
    /\ op = NewOperation(TargetHeight)
    /\ pc = "main"
    /\ loc = NoLocals
    /\ hist = NoHistory

JobNext ==
    \/ MainStart
    \/ MainSetExecuting
    \/ ImplUpgradeCheck
    \/ ImplGetNotes
    \/ ImplLoop
    \/ ImplSelect
    \/ ImplMinCheck
    \/ ImplWitnesses
    \/ ImplSpends
    \/ ImplBuild
    \/ ImplCheckCancel
    \/ ImplCommit
    \/ ImplAfterLoop
    \/ ImplThrow
    \/ MainFinish
    \/ Cancel

SpecJob == JobInit /\ [][JobNext]_vars

(***************************************************************************)
(* The key store alone: no operation runs.                                 *)
(***************************************************************************)
StoreInit ==
    /\ cs = Unlocked
    /\ thread = [t \in Threads |-> Idle]
    /\ ks = EmptyKeyStore
    /\ lastOp = NoOp
    /\ wallet = Wallet([a \in NoteAddrs |-> 0], 0)
    /\ chain = [tip |-> ChainTip, nextActivationHeight |-> NoHeight]
    /\ args = [fConsolidationTxFee |-> 0, fConsolidationMapUsed |-> FALSE, v |-> <<>>]
    /\ op = NewOperation(TargetHeight)
    /\ pc = "main"
    /\ loc = NoLocals
    /\ hist = NoHistory

\* The seed and the Sapling key maps.
SaplingNext ==
    \/ CallSetHDSeed
    \/ CallAddSaplingSpendingKey
    \/ CallAddSaplingFullViewingKey
    \/ CallAddSaplingIncomingViewingKey

SpecSapling == StoreInit /\ [][SaplingNext]_vars

\* The transparent partition.
TransparentNext ==
    \/ CallAddKeyPubKey
    \/ CallAddKey
    \/ CallAddCScript
    \/ CallAddWatchOnly
    \/ CallAddSaplingWatchOnly
    \/ CallRemoveWatchOnly
    \/ CallRemoveSaplingWatchOnly

SpecTransparent == StoreInit /\ [][TransparentNext]_vars

\* Sprout keys and the diversifier bookkeeping.
SproutNext ==
    \/ CallAddSproutSpendingKey
    \/ CallAddSproutViewingKey
    \/ CallRemoveSproutViewingKey
    \/ CallAddSaplingDiversifiedAddess
    \/ CallAddLastDiversifierUsed

SpecSprout == StoreInit /\ [][SproutNext]_vars

\* Threads calling the store at the same time.
LocksNext ==
    \E t \in Threads :
        \/ ThreadEnter(t)
        \/ ThreadLock(t)
        \/ ThreadDo(t)
        \/ ThreadUnlock(t)

SpecLocks == StoreInit /\ [][LocksNext]_vars

(***************************************************************************)
(* The claims.                                                             *)
(***************************************************************************)
Ivks == ks.mapSaplingIncomingViewingKeys
Fvks == ks.mapSaplingFullViewingKeys
Sks == ks.mapSaplingSpendingKeys

\* C1: once an address is in the address -> ivk map, no later call of the
\* store changes the incoming viewing key it maps to (adding the address
\* again with another key leaves the first key in place).
C1_OneAddressOneIvk ==
    [][\A a \in DOMAIN ks.mapSaplingIncomingViewingKeys :
           /\ a \in DOMAIN ks'.mapSaplingIncomingViewingKeys
           /\ ks'.mapSaplingIncomingViewingKeys[a] = ks.mapSaplingIncomingViewingKeys[a]]_vars

\* C2: the seed is written once.  A SetHDSeed call made while a non-null
\* seed is stored returns false and leaves the whole store as it was; a call
\* with a non-null seed made while no seed is stored returns true and stores
\* it; and whatever is called, a stored non-null seed stays the value that
\* GetHDSeed returns.
C2_SeedWriteOnce ==
    [][/\ lastOp'.op = "SetHDSeed" =>
            /\ ~IsNull(ks.hdSeed) => (~lastOp'.ret /\ ks' = ks)
            /\ (IsNull(ks.hdSeed) /\ ~IsNull(lastOp'.a1)) =>
                   (lastOp'.ret /\ ks'.hdSeed = lastOp'.a1)
       /\ ~IsNull(ks.hdSeed) => GetHDSeed(ks', NullSeed) = Out(TRUE, ks.hdSeed)]_vars

\* a second SetHDSeed, with another non-null seed, has failed, in a store
\* that holds Sapling keys too
C2_Witness ==
    /\ lastOp.op = "SetHDSeed"
    /\ ~lastOp.ret
    /\ ~IsNull(lastOp.a1)
    /\ ~IsNull(ks.hdSeed)
    /\ lastOp.a1 # ks.hdSeed
    /\ DOMAIN Sks # {}

HasIvk(addr) == addr \in DOMAIN Ivks
HasFvk(addr) == HasIvk(addr) /\ Ivks[addr] \in DOMAIN Fvks
HasSk(addr) == HasFvk(addr) /\ Fvks[Ivks[addr]] \in DOMAIN Sks

\* C3: GetSaplingExtendedSpendingKey(addr, out) fails, and leaves out as it
\* was, when the addr -> ivk entry, the ivk -> full viewing key entry or the
\* full viewing key -> spending key entry is absent; otherwise it succeeds
\* with the key the three maps compose to.  Right after a successful
\* AddSaplingSpendingKey(sk) the lookup of sk's default address returns sk.
C3_CompositeLookup ==
    /\ \A addr \in SaplingPaymentAddresses, out \in {NoSk} \cup SaplingSpendingKeys :
           GetSaplingExtendedSpendingKey(ks, addr, out) =
               IF HasSk(addr) THEN Out(TRUE, Sks[Fvks[Ivks[addr]]]) ELSE Out(FALSE, out)
    /\ (lastOp.op = "AddSaplingSpendingKey" /\ lastOp.ret) =>
           GetSaplingExtendedSpendingKey(ks, DefaultAddress(ToXFVK(lastOp.a1)), NoSk)
               = Out(TRUE, lastOp.a1)

\* a spending key was just added and is found, another address has no
\* entry, and a third has an incoming viewing key without a full viewing key
C3_Witness ==
    /\ lastOp.op = "AddSaplingSpendingKey"
    /\ lastOp.ret
    /\ HasSk(DefaultAddress(ToXFVK(lastOp.a1)))
    /\ \E addr \in SaplingPaymentAddresses : ~HasIvk(addr)
    /\ \E addr \in SaplingPaymentAddresses : HasIvk(addr) /\ ~HasFvk(addr)

\* C4: AddCScript with a script longer than the maximum returns false and
\* leaves the whole store as it was; with a script within the maximum it
\* returns true, and then HaveCScript and GetCScript of the script's hash
\* succeed and GetCScript returns that script.
C4_AddCScript ==
    [][lastOp'.op = "AddCScript" =>
           LET script == ScriptOf(lastOp'.a1)
           IN  IF script.size > MAX_SCRIPT_ELEMENT_SIZE
               THEN ~lastOp'.ret /\ ks' = ks
               ELSE /\ lastOp'.ret
                    /\ HaveCScript(ks', CScriptID(script))
                    /\ GetCScript(ks', CScriptID(script), NoScript) = Out(TRUE, script)]_vars

\* an oversized script was just refused by a store that holds a script and
\* a watch-only entry
C4_Witness ==
    /\ lastOp.op = "AddCScript"
    /\ ~lastOp.ret
    /\ DOMAIN ks.mapScripts # {}
    /\ ks.setWatchOnly # {}

\* C5: once cancel() has been called before the operation reached the
\* commit of a transaction, that transaction and the later ones are never
\* committed, and when main() has returned the state is CANCELLED.
C5_CooperativeCancellation ==
    hist.cancelCalled =>
        /\ Len(wallet.committed) <= hist.commitsAtCancel
        /\ pc = "returned" => op.state_ = "CANCELLED"

\* C6: the state only moves READY -> EXECUTING, READY -> CANCELLED,
\* EXECUTING -> SUCCESS, EXECUTING -> FAILED or EXECUTING -> CANCELLED; so
\* SUCCESS, FAILED and CANCELLED are never left.
StateTransitions ==
    { <<"READY", "EXECUTING">>, <<"READY", "CANCELLED">>, <<"EXECUTING", "SUCCESS">>,
      <<"EXECUTING", "FAILED">>, <<"EXECUTING", "CANCELLED">> }

C6_StateMachine ==
    [][op'.state_ # op.state_ => <<op.state_, op'.state_>> \in StateTransitions]_vars

\* C7: when main_impl has returned, the reported num_tx_created is the
\* number of transactions the run committed, which is the number of ids in
\* consolidation_txids.
C7_NumTxCreated ==
    op.result # NoResult =>
        /\ op.result.num_tx_created = Len(wallet.committed)
        /\ Len(op.result.consolidation_txids) = Len(wallet.committed)

\* C8: for a transaction the operation builds, with V the summed value of
\* the selected notes and F the configured fee: the builder's fee is F and
\* the output V - F when V > F, the fee is 0 and the output V when V <= F;
\* the output is not negative and fee + output = V.
C8_FeeRule ==
    pc \in {"build", "check_cancel", "commit"} =>
        LET V == SumValues(loc.iter.fromNotes)
            F == args.fConsolidationTxFee
            b == loc.iter.builder
        IN  /\ Len(b.outputs) = 1
            /\ V > F => (b.fee = F /\ b.outputs[1].value = V - F)
            /\ V <= F => (b.fee = 0 /\ b.outputs[1].value = V)
            /\ b.outputs[1].value >= 0
            /\ b.fee + b.outputs[1].value = V

\* a transaction was built whose notes are worth no more than the fee
C8_Witness ==
    /\ pc = "commit"
    /\ args.fConsolidationTxFee > 0
    /\ SumValues(loc.iter.fromNotes) <= args.fConsolidationTxFee
    /\ loc.iter.builder.fee = 0

\* the number of the wallet's notes of address a whose incoming viewing key
\* is the one derived from the spending key k
EligibleNotes(a, k) ==
    Cardinality({ i \in 1..Len(wallet.notes) :
                    /\ wallet.notes[i].address = a
                    /\ HasIvk(a)
                    /\ Ivks[a] = in_viewing_key(ToXFVK(k)) })

\* the addresses the run has made (or is making) a transaction for
Building ==
    hist.built
    \cup { wallet.committed[i].outputs[1].address : i \in 1..Len(wallet.committed) }
    \cup (IF pc \in {"witnesses", "spends", "build", "check_cancel", "commit"}
          THEN {loc.iter.addr} ELSE {})

\* C9: an address whose eligible notes are fewer than the wallet's target
\* count, or whose spending key the store cannot resolve, gets no
\* transaction built or committed in the run.
C9_ThresholdSkip ==
    \A a \in Building :
        /\ HasSk(a)
        /\ EligibleNotes(a, Sks[Fvks[Ivks[a]]]) >= wallet.targetConsolidationQty

\* a run has ended that skipped an address for its few notes and committed
\* a transaction for another address
C9_Witness ==
    /\ pc = "returned"
    /\ Len(wallet.committed) = 1
    /\ \E a \in DOMAIN hist.skipped :
           /\ hist.skipped[a] = "threshold"
           /\ EligibleNotes(a, Sks[Fvks[Ivks[a]]]) > 0

Returned ==
    /\ pc \in {"finish", "returned"}
    /\ loc.success
    /\ ~InUpgradeWindow(op.targetHeight_, chain.nextActivationHeight)

AllSkippedAt(steps) ==
    \A a \in DOMAIN loc.mapAddresses :
        a \in DOMAIN hist.skipped /\ hist.skipped[a] \in steps

MarkedComplete ==
    /\ wallet.nextConsolidation = wallet.initializeConsolidationInterval + chain.tip
    /\ ~wallet.fConsolidationRunning

\* C10 as claimed: a run that passed the upgrade check and returned, and
\* skipped every address at the threshold check or at the minimum-batch
\* check, is marked complete.
C10_CompleteWhenAllSkipped ==
    (Returned /\ AllSkippedAt({"threshold", "minimum"})) => MarkedComplete

\* C10 amended: a run that passed the upgrade check and returned, and skipped
\* every address at the threshold check, is marked complete: nextConsolidation
\* is the interval plus the tip height and the running flag is cleared.
C10_CompleteWhenAllBelowThreshold ==
    (Returned /\ AllSkippedAt({"threshold"})) => MarkedComplete

\* a run over two addresses, both skipped at the threshold, was marked complete
C10_Witness ==
    /\ Returned
    /\ Cardinality(DOMAIN loc.mapAddresses) = 2
    /\ AllSkippedAt({"threshold"})
    /\ MarkedComplete

\* C11: once an address has passed the threshold and the minimum-batch
\* checks (a transaction was attempted for it, whatever became of it), the
\* wallet's nextConsolidation and running flag stay as the run found them;
\* and the running flag is cleared only by a run that attempted nothing and
\* skipped every address for its missing key or at the threshold.
C11_NotCompleteWhenProcessed ==
    /\ hist.attempted # {} =>
           /\ wallet.nextConsolidation = ChainTip
           /\ wallet.fConsolidationRunning
    /\ ~wallet.fConsolidationRunning =>
           /\ hist.attempted = {}
           /\ pc \in {"finish", "returned"}
           /\ AllSkippedAt({"nokey", "threshold"})

\* a run has returned that committed a transaction for one address and
\* failed to build one for another, and the running flag is still set
C11_Witness ==
    /\ pc = "returned"
    /\ loc.success
    /\ Cardinality(hist.attempted) = 2
    /\ Len(wallet.committed) = 1
    /\ hist.failed # NoFailure
    /\ wallet.fConsolidationRunning

\* C12: an exception out of main_impl() is caught in main(): control goes on
\* to the end of main(), which stops the clock and, if something was thrown,
\* sets the state FAILED with a non-empty message and the code of the thrown
\* object, -1 for a runtime_error, logic_error or other std::exception, -2
\* for anything else; main() sets the state SUCCESS only when main_impl()
\* returned true and threw nothing.
C12_ExceptionIsolation ==
    [][/\ (hist.thrown = NoThrow /\ hist'.thrown # NoThrow) => pc' = "finish"
       /\ (pc = "finish" /\ pc' = "returned") =>
              /\ op'.clock = "stopped"
              /\ hist.thrown = NoThrow => op'.state_ = "SUCCESS"
              /\ hist.thrown # NoThrow =>
                     /\ op'.state_ = "FAILED"
                     /\ op'.error_message # ""
                     /\ op'.error_code =
                            (IF hist.thrown[1] = "UniValue" THEN hist.thrown[2]
                             ELSE IF hist.thrown[1] \in {"runtime_error", "logic_error", "exception"}
                                  THEN -1 ELSE -2)
       /\ (op.state_ # "SUCCESS" /\ op'.state_ = "SUCCESS") =>
              (loc.success /\ hist.thrown = NoThrow)]_vars

\* main() has returned after an unknown exception that was thrown when one
\* transaction was already committed
C12_Witness ==
    /\ pc = "returned"
    /\ hist.thrown # NoThrow
    /\ hist.thrown[1] = "unknown"
    /\ op.state_ = "FAILED"
    /\ op.error_code = -2
    /\ op.clock = "stopped"
    /\ Len(wallet.committed) = 1

UpgradeTooClose ==
    /\ chain.nextActivationHeight # NoHeight
    /\ op.targetHeight_ + 40 >= chain.nextActivationHeight[1]

\* C13: when there is a next upgrade and targetHeight + 40 is at or above
\* its height, the run never reaches the note enumeration or anything after
\* it: nothing is attempted, built or committed, the wallet's schedule and
\* running flag stay as they were, the result is 0 transactions, amount 0
\* and no ids, and main() finishes by setting the state SUCCESS.  Otherwise
\* main_impl() goes on to the note enumeration.
C13_UpgradeWindowSkip ==
    /\ [](UpgradeTooClose =>
            /\ pc \in {"main", "set_executing", "main_impl", "finish", "returned"}
            /\ loc.mapAddresses = EmptyMap
            /\ hist.attempted = {} /\ hist.built = {}
            /\ wallet.committed = <<>>
            /\ wallet.nextConsolidation = ChainTip
            /\ wallet.fConsolidationRunning
            /\ op.result \in {NoResult, ConsolidationResult(0, 0, <<>>)}
            /\ pc = "finish" => (loc.success /\ op.result # NoResult))
    /\ [][/\ (UpgradeTooClose /\ pc = "finish" /\ pc' = "returned") => op'.state_ = "SUCCESS"
          /\ (~UpgradeTooClose /\ pc = "main_impl" /\ pc' # pc) => pc' = "get_notes"]_vars

\* a run whose target is exactly 40 below the upgrade has returned with the
\* empty result, in a wallet whose notes would have been consolidated
C13_Witness ==
    /\ pc = "returned"
    /\ chain.nextActivationHeight = SomeHeight(op.targetHeight_ + 40)
    /\ op.state_ = "SUCCESS"
    /\ op.result = ConsolidationResult(0, 0, <<>>)
    /\ Len(wallet.notes) >= 2 * wallet.targetConsolidationQty

\* the critical section of each partition: cs_KeyStore for the transparent
\* keys, the scripts and the watch-only sets, cs_SpendingKeyStore for the rest
TransparentMembers == {"mapKeys", "mapScripts", "setWatchOnly", "setSaplingWatchOnly"}
PartitionMembers(c) ==
    IF c = cs_KeyStore THEN TransparentMembers ELSE DOMAIN ks \ TransparentMembers
PartitionOf(m) ==
    IF m \in {"AddKey", "AddKeyPubKey", "AddCScript", "GetCScript", "AddWatchOnly",
              "RemoveWatchOnly", "AddSaplingWatchOnly", "RemoveSaplingWatchOnly",
              "HaveWatchOnly"}
    THEN cs_KeyStore ELSE cs_SpendingKeyStore

Busy(t) == thread[t] # Idle
Holds(t, c) == cs[c].owner = t
NextStep(t) == Head(thread[t].prog)
Blocked(t) ==
    /\ Busy(t)
    /\ NextStep(t).k = "LOCK"
    /\ cs[NextStep(t).x].owner \notin {NoThread, t}
\* how many scopes of LOCK(c) the thread is inside: the unlocks it has still
\* to do less the locks it has still to take
Depth(t, c) ==
    Cardinality({ i \in 1..Len(thread[t].prog) :
                    thread[t].prog[i].k = "UNLOCK" /\ thread[t].prog[i].x = c })
    - Cardinality({ i \in 1..Len(thread[t].prog) :
                      thread[t].prog[i].k = "LOCK" /\ thread[t].prog[i].x = c })
\* the store with the partition's members as they were when the thread
\* entered its critical section
AtEntry(t) ==
    [f \in DOMAIN ks |-> IF f \in DOMAIN thread[t].snap THEN thread[t].snap[f] ELSE ks[f]]
\* the store and the result of the thread's call, had the call been made in
\* one piece on AtEntry(t)
InOnePiece(t) ==
    LET th == thread[t]
        s == AtEntry(t)
    IN  CASE th.m = "AddKey" -> AddKey(s, th.a1)
          [] th.m = "AddCScript" -> AddCScript(s, ScriptOf(th.a1))
          [] th.m = "AddWatchOnly" -> AddWatchOnly(s, ScriptOf(th.a1))
          [] th.m = "RemoveWatchOnly" -> RemoveWatchOnly(s, ScriptOf(th.a1))
          [] th.m = "HaveWatchOnly" -> Result(s, HaveWatchOnly(s))
          [] th.m = "AddSaplingSpendingKey" -> AddSaplingSpendingKey(s, th.a1)
          [] th.m = "AddSaplingFullViewingKey" -> AddSaplingFullViewingKey(s, th.a1)
          [] th.m = "GetSaplingExtendedSpendingKey" ->
                 Result(s, GetSaplingExtendedSpendingKey(s, th.a1, NoSk).ret)

\* C14: a thread owns a critical section only inside a method of that
\* section's partition, and never both sections; a thread inside a method of
\* one partition never keeps a thread of the other partition waiting; some
\* thread that is in a call can always take a step (no deadlock); at most
\* one thread is inside the scopes of a critical section; every statement of
\* a method runs, and every member of the store changes, only while the
\* thread owns the partition's critical section; and a call that returns
\* has done to its partition, and returns, what the method does in one piece
\* to the partition as it was on entry (so AddSaplingSpendingKey with its
\* nested calls is atomic for the other shielded methods).
C14_LockPartitioning ==
    /\ [](/\ \A t \in Threads, c \in CriticalSections :
                /\ Holds(t, c) <=> Depth(t, c) > 0
                /\ Holds(t, c) => (cs[c].count = Depth(t, c) /\ PartitionOf(thread[t].m) = c)
          /\ \A t \in Threads : ~(Holds(t, cs_KeyStore) /\ Holds(t, cs_SpendingKeyStore))
          /\ \A c \in CriticalSections :
                Cardinality({ t \in Threads : Depth(t, c) > 0 }) <= 1
          /\ \A t \in Threads, u \in Threads :
                (Blocked(t) /\ Busy(u) /\ PartitionOf(thread[u].m) # PartitionOf(thread[t].m))
                    => ~Holds(u, NextStep(t).x)
          /\ (\E t \in Threads : Busy(t)) => (\E t \in Threads : Busy(t) /\ ~Blocked(t)))
    /\ [][/\ \A t \in Threads :
                (Busy(t) /\ thread'[t] # thread[t] /\ NextStep(t) \notin {Do("return false")}
                 /\ NextStep(t).k = "DO")
                    => Holds(t, PartitionOf(thread[t].m))
          /\ \A c \in CriticalSections : \A f \in PartitionMembers(c) :
                ks'[f] # ks[f] =>
                    \E t \in Threads : Holds(t, c) /\ thread'[t] # thread[t]
          /\ \A t \in Threads :
                (Busy(t) /\ thread'[t] = Idle) =>
                    /\ \A f \in PartitionMembers(PartitionOf(thread[t].m)) :
                           ks'[f] = InOnePiece(t).ks[f]
                    /\ lastOp'.ret = InOnePiece(t).ret
                    /\ (thread[t].m = "GetSaplingExtendedSpendingKey" /\ lastOp'.ret) =>
                           thread[t].out = GetSaplingExtendedSpendingKey(AtEntry(t), thread[t].a1, NoSk).out]_vars

\* one thread is inside AddSaplingSpendingKey, in the innermost of its three
\* scopes, while the other thread waits for the same critical section
C14_Witness ==
    \E t \in Threads, u \in Threads :
        /\ thread[t].m = "AddSaplingSpendingKey"
        /\ cs[cs_SpendingKeyStore] = [owner |-> t, count |-> 3]
        /\ Blocked(u)
        /\ thread[u].m = "GetSaplingExtendedSpendingKey"

AllWitnesses == \A i \in 1..Len(loc.iter.witnesses) : loc.iter.witnesses[i]

\* C15: when a witness is missing for one of the notes selected for an
\* address, Build() is not called for that address (the builder is never
\* asked to build from a part of the selected notes) and no transaction is
\* committed for it.
C15_MissingWitness ==
    pc \in {"build", "check_cancel", "commit"} =>
        /\ AllWitnesses
        /\ Len(loc.iter.builder.spends) = Len(loc.iter.fromNotes)

CommittedIds == [i \in 1..Len(wallet.committed) |-> TxId(wallet.committed[i])]
CommittedFor == { wallet.committed[i].outputs[1].address : i \in 1..Len(wallet.committed) }

\* C16: once Build() has failed for an address, the run is past the loop
\* over the addresses (no later key lookup, witness retrieval, build or
\* commit), nothing more is committed, nothing is committed and no id is
\* reported for the failed address, the ids of the transactions committed
\* before are the ids reported, main_impl() returns true without throwing
\* and main() finishes by setting the state SUCCESS.
C16_BuilderFailureAbortsBatch ==
    /\ [](hist.failed # NoFailure =>
            /\ pc \in {"after_loop", "finish", "returned"}
            /\ Len(wallet.committed) = hist.failed[2]
            /\ hist.failed[1] \notin CommittedFor
            /\ hist.thrown = NoThrow
            /\ pc \in {"finish", "returned"} =>
                   /\ loc.success
                   /\ op.result # NoResult
                   /\ op.result.consolidation_txids = CommittedIds)
    /\ [][(hist.failed # NoFailure /\ pc = "finish" /\ pc' = "returned")
              => op'.state_ = "SUCCESS"]_vars

\* Build() failed for the first address and the run has returned, with state
\* SUCCESS, without looking at the second address, which holds notes enough
\* to be consolidated
C16_Witness ==
    /\ pc = "returned"
    /\ hist.failed # NoFailure
    /\ op.state_ = "SUCCESS"
    /\ \E a \in DOMAIN loc.mapAddresses :
           /\ a # hist.failed[1]
           /\ a \notin DOMAIN hist.skipped \cup hist.attempted
           /\ HasSk(a)
           /\ Len(loc.mapAddresses[a]) >= wallet.targetConsolidationQty

\* Build() failed for the second address after the transaction of the first
\* was committed, and the run has returned
C16_WitnessAfterCommit ==
    /\ pc = "returned"
    /\ hist.failed # NoFailure
    /\ Len(wallet.committed) = 1
    /\ Len(op.result.consolidation_txids) = 1

Balanced(tx) ==
    /\ \A i \in 1..Len(tx.spends) : tx.spends[i].address = tx.outputs[1].address
    /\ SumValues(tx.spends) = tx.outputs[1].value + tx.fee
SpentIn(tx) == { tx.spends[i].op : i \in 1..Len(tx.spends) }
NoDoubleSpend ==
    \A i \in 1..Len(wallet.committed), j \in 1..Len(wallet.committed) :
        i # j => SpentIn(wallet.committed[i]) \cap SpentIn(wallet.committed[j]) = {}

\* C17: the transaction about to be committed spends exactly the notes
\* selected for the address, one spend per note; every committed transaction
\* spends notes of its output's address only, worth its output plus its fee;
\* and no note is spent by two committed transactions.
C17_ValueConservation ==
    /\ pc = "commit" =>
           /\ loc.iter.maybe_tx[1].spends = loc.iter.fromNotes
           /\ Balanced(loc.iter.maybe_tx[1])
    /\ \A i \in 1..Len(wallet.committed) : Balanced(wallet.committed[i])
    /\ NoDoubleSpend

\* C17 without the equality of spends and selected notes: the spends of the
\* transaction about to be committed are the selected notes up to the first
\* one without a witness; the rest as above.
C17_SpendsAreSelectedPrefix ==
    /\ pc = "commit" =>
           /\ Len(loc.iter.maybe_tx[1].spends) <= Len(loc.iter.fromNotes)
           /\ loc.iter.maybe_tx[1].spends
                  = SubSeq(loc.iter.fromNotes, 1, Len(loc.iter.maybe_tx[1].spends))
           /\ Balanced(loc.iter.maybe_tx[1])
    /\ \A i \in 1..Len(wallet.committed) : Balanced(wallet.committed[i])
    /\ NoDoubleSpend

RECURSIVE SumOutputs(_)
SumOutputs(txs) ==
    IF txs = <<>> THEN 0 ELSE Head(txs).outputs[1].value + SumOutputs(Tail(txs))

\* C18: when main_impl() has returned, the reported amount_consolidated is
\* the sum of the outputs (selected value less fee) of the transactions the
\* run committed; an address that was skipped, whose build failed or that
\* was cancelled adds nothing.
C18_AmountConsolidated ==
    op.result # NoResult =>
        op.result.amount_consolidated = SumOutputs(wallet.committed)

\* C19: in every store, for every full viewing key f that keys an entry of
\* the spending-key map: the full-viewing-key map has an entry under f's
\* incoming viewing key, the outgoing-viewing-key set holds f's ovk and the
\* address -> ivk map has an entry for f's default address; every ivk that
\* is a value of the address -> ivk map is in the set of known ivks; and
\* AddSaplingSpendingKey and AddSaplingFullViewingKey, called again with the
\* same argument, return the same and leave the store as the first call left it.
C19_KeyChainInvariant ==
    /\ \A f \in DOMAIN ks.mapSaplingSpendingKeys :
           /\ in_viewing_key(f) \in DOMAIN ks.mapSaplingFullViewingKeys
           /\ ovk(f) \in ks.setSaplingOutgoingViewingKeys
           /\ DefaultAddress(f) \in DOMAIN ks.mapSaplingIncomingViewingKeys
    /\ \A a \in DOMAIN ks.mapSaplingIncomingViewingKeys :
           ks.mapSaplingIncomingViewingKeys[a] \in ks.setSaplingIncomingViewingKeys
    /\ \A sk \in SaplingSpendingKeys :
           AddSaplingSpendingKey(AddSaplingSpendingKey(ks, sk).ks, sk)
               = AddSaplingSpendingKey(ks, sk)
    /\ \A extfvk \in SaplingFullViewingKeys :
           AddSaplingFullViewingKey(AddSaplingFullViewingKey(ks, extfvk).ks, extfvk)
               = AddSaplingFullViewingKey(ks, extfvk)

\* both spending keys are stored, the full viewing key stored under the
\* incoming viewing key of spending key 1 is another key's, and the default
\* address of spending key 2 has been given another incoming viewing key
C19_Witness ==
    /\ DOMAIN ks.mapSaplingSpendingKeys = SaplingFullViewingKeys \ {0}
    /\ ks.mapSaplingFullViewingKeys[in_viewing_key(1)] # 1
    /\ ks.mapSaplingIncomingViewingKeys[DefaultAddress(2)] # in_viewing_key(2)

\* the draws, whatever rand() returns: maxQuantity is in 10..44 and
\* minQuantity in 2..11, and every value of the two ranges is drawn
DrawnRanges ==
    /\ { (r % 35) + 10 : r \in 0..99 } = 10..44
    /\ { (r % 10) + 2 : r \in 0..99 } = 2..11
\* the selection made for the address in work: no more than maxQuantity
\* notes, all of the address; at least minQuantity notes once a transaction
\* is being made from them
SelectionInBounds ==
    /\ pc \in {"select", "min_check", "witnesses", "spends", "build", "check_cancel", "commit"} =>
           loc.iter.maxQuantity \in 10..44
    /\ pc \in {"min_check", "witnesses", "spends", "build", "check_cancel", "commit"} =>
           /\ Len(loc.iter.fromNotes) <= loc.iter.maxQuantity
           /\ \A i \in 1..Len(loc.iter.fromNotes) : loc.iter.fromNotes[i].address = loc.iter.addr
    /\ pc \in {"witnesses", "spends", "build", "check_cancel", "commit"} =>
           /\ loc.iter.minQuantity \in 2..11
           /\ Len(loc.iter.fromNotes) >= loc.iter.minQuantity

Authority(s, addr) == GetSaplingExtendedSpendingKey(s, addr, NoSk)

\* C21: once GetSaplingExtendedSpendingKey(addr) succeeds and returns sk,
\* no later call of the store, whatever its arguments, makes it fail or
\* return another key: every step keeps the lookup's success and its key.
C21_SpendingAuthorityKept ==
    [][\A addr \in SaplingPaymentAddresses :
           Authority(ks, addr).ret =>
               /\ Authority(ks', addr).ret
               /\ Authority(ks', addr).out = Authority(ks, addr).out]_vars

\* the first half alone: a lookup that succeeded never fails later
C21_NeverLost ==
    [][\A addr \in SaplingPaymentAddresses :
           Authority(ks, addr).ret => Authority(ks', addr).ret]_vars

\* the second half alone: a lookup that succeeded never returns another key
\* while it succeeds
C21_NeverRedirected ==
    [][\A addr \in SaplingPaymentAddresses :
           (Authority(ks, addr).ret /\ Authority(ks', addr).ret) =>
               Authority(ks', addr).out = Authority(ks, addr).out]_vars

====
